---- MODULE Spec2Model ----
(***************************************************************************)
(* Model of benchmark() and benchmark_worker() of src/benchmark.py: one    *)
(* producer (the caller of benchmark()), the feeder thread of the          *)
(* multiprocessing path queue, and queue_depth worker processes.           *)
(*                                                                         *)
(* A multiprocessing.Queue is a buffer in the putting process, a feeder    *)
(* thread, and an OS pipe of finite capacity: put() appends to the buffer  *)
(* and never blocks (maxsize = 0), the feeder thread moves tokens from the *)
(* buffer into the pipe while the pipe has room, get() takes the oldest    *)
(* token from the pipe under the reader lock, and close() followed by      *)
(* join_thread() waits until the feeder has emptied the buffer.            *)
(* result_queue carries at most queue_depth small integers, which never    *)
(* fill its pipe, so its buffer and pipe are modelled as one sequence.     *)
(*                                                                         *)
(* Time is the one fact the code reads of it: whether perf_counter() is    *)
(* past end_t.                                                             *)
(***************************************************************************)
EXTENDS Integers, Sequences, FiniteSets

\* Largest len(all_files) explored.
MaxPaths == 2
\* Largest queue_depth explored.
MaxDepth == 2
\* Tokens the OS pipe under path_queue holds before the feeder's write blocks.
PipeCap == 2

\* The stop sentinel put on path_queue (None); paths are 1..len(all_files).
None == 0

\* drop_caches arguments benchmark() is called with: the default 0 and
\* main()'s 3.
DropValues == {0, 3}

VARIABLES
    all_files,     \* the list benchmark() was given, shuffled in place
    queue_depth,   \* benchmark()'s queue_depth
    main_pc,       \* where benchmark() is
    i,             \* index of the for loop benchmark() is in
    buffer,        \* path_queue: tokens put and not yet written to the pipe
    pipe,          \* path_queue: tokens in the pipe, oldest first
    expired,       \* time.perf_counter() > end_t
    wpc,           \* where each worker process is
    item,          \* p of each worker while it is read (None otherwise)
    count,         \* completed_count of each worker
    result_queue,  \* result_queue: values put and not yet taken, oldest first
    total,         \* completed_count of benchmark()
    left,          \* history: why each worker left its loop
    stops,         \* history: stop sentinels each worker dequeued
    reads,         \* history: times each path was dequeued
    taken,         \* history: workers whose value benchmark() took, in order
    early,         \* history: the deadline passed with paths not yet read
    late,          \* history: tokens each worker dequeued past the deadline
    late_reads,    \* history: reads each worker completed past the deadline
    stamps,        \* history: the clock readings benchmark() has taken
    published,     \* history: the values each worker put on result_queue
    paths_put,     \* history: paths put on path_queue
    stops_put,     \* history: stop sentinels put on path_queue
    watch,         \* whether this run records late and late_reads
    sweep_pc,      \* where main() is
    fs,            \* index in all_fs of the filesystem main() is at
    step,          \* commands of the running setup() or teardown() done
    call,          \* benchmark() calls made in the running with block
    pending,       \* an exception of the with block's body is propagating
    image,         \* fs_image_path exists
    target,        \* mount_target exists
    mounted,       \* the image is mounted on mount_target
    setups,        \* history: how setup() of each filesystem ended
    entered,       \* history: the with block's body of each was entered
    body_end,      \* history: how the body of each ended
    teardowns      \* history: calls of teardown() of each filesystem

vars == <<all_files, queue_depth, main_pc, i, buffer, pipe,
          expired, wpc, item, count, result_queue, total, left, stops, reads,
          taken, early, late, late_reads, stamps, published, paths_put,
          stops_put, watch>>

sweep_vars == <<sweep_pc, fs, step, call, pending, image, target, mounted,
                setups, entered, body_end, teardowns>>

all_vars == <<vars, sweep_vars>>

\* len(all_fs): Ext4, SquashFs, Erofs.
NumFs == 3
\* benchmark() calls in the body of the with block.
NumCalls == 3

FsIds == 1..NumFs

WorkerIds == 1..MaxDepth
Workers == 1..queue_depth
Paths == 1..MaxPaths

RECURSIVE SumTo(_, _)
\* f[1] + ... + f[n]
SumTo(f, n) == IF n = 0 THEN 0 ELSE f[n] + SumTo(f, n - 1)

\* The orders random.shuffle can leave a list of length n in.
Perms(n) == {p \in [1..n -> 1..n] : \A a, b \in 1..n : p[a] = p[b] => a = b}

\* A shuffle that draws with replacement (random.choices): a path may come
\* twice and another not at all.
ShuffleWithRepeats(files) ==
    {[k \in 1..Len(files) |-> files[p[k]]] :
        p \in [1..Len(files) -> 1..Len(files)]}

\* random.shuffle(all_files): any permutation of the list.
Shuffle(files) == {[k \in 1..Len(files) |-> files[p[k]]] : p \in Perms(Len(files))}

\* What subprocess.run([...]) without check=True can do: return with exit
\* status 0, return with another exit status, or raise because the command
\* cannot be executed.
RunOutcomes == {"ok", "nonzero", "raise"}

\* The state benchmark() is called in; watching says whether the run records
\* what each worker does past the deadline.
Start(watching) ==
    /\ watch = watching
    /\ sweep_pc = "args"
    /\ fs = 1
    /\ step = 0
    /\ call = 0
    /\ pending = FALSE
    /\ image = FALSE
    /\ target = FALSE
    /\ mounted = FALSE
    /\ setups = [f \in FsIds |-> "no"]
    /\ entered = [f \in FsIds |-> FALSE]
    /\ body_end = [f \in FsIds |-> "no"]
    /\ teardowns = [f \in FsIds |-> 0]
    /\ \E n \in 0..MaxPaths : all_files = [k \in 1..n |-> k]
    /\ queue_depth \in 1..MaxDepth
    /\ main_pc = "drop"
    /\ i = 0
    /\ buffer = <<>>
    /\ pipe = <<>>
    /\ expired = FALSE
    /\ wpc = [w \in WorkerIds |-> "idle"]
    /\ item = [w \in WorkerIds |-> None]
    /\ count = [w \in WorkerIds |-> 0]
    /\ result_queue = <<>>
    /\ total = 0
    /\ left = [w \in WorkerIds |-> "no"]
    /\ stops = [w \in WorkerIds |-> 0]
    /\ reads = [p \in Paths |-> 0]
    /\ taken = <<>>
    /\ early = FALSE
    /\ late = [w \in WorkerIds |-> 0]
    /\ late_reads = [w \in WorkerIds |-> 0]
    /\ stamps = {}
    /\ published = [w \in WorkerIds |-> <<>>]
    /\ paths_put = 0
    /\ stops_put = 0

Init == Start(FALSE)

----------------------------------------------------------------------------
\* benchmark()

\* A runner that takes start_t together with end_t, before the workers start.
StampsAtEarly(pc) ==
    CASE pc = "shuffle" -> {"end_t", "start_t"}
      [] pc = "join" -> {"used_t"}
      [] OTHER -> {}

\* The clock readings benchmark() takes on leaving a place: end_t on line 129
\* (before the start loop), start_t on line 138 (after the start loop) and the
\* reading of used_t on line 148 (after the join loop).
StampsAt(pc) ==
    CASE pc = "shuffle" -> {"end_t"}
      [] pc = "start" -> {"start_t"}
      [] pc = "join" -> {"used_t"}
      [] OTHER -> {}

\* Lines 122-124: the optional cache drop.
DropCaches ==
    /\ main_pc = "drop"
    /\ \E drop_caches \in DropValues :
           IF drop_caches > 0
           THEN \E r \in RunOutcomes :
                    main_pc' = IF r = "raise" THEN "raised" ELSE "shuffle"
           ELSE main_pc' = "shuffle"
    /\ UNCHANGED <<all_files, queue_depth, i, buffer, pipe,
                   expired, wpc, item, count, result_queue, total, left,
                   stops, reads, taken, early>>
    /\ UNCHANGED <<watch, late, late_reads, stamps, published, paths_put, stops_put, sweep_vars>>

\* Lines 126-131: the queues, the shuffle and the deadline end_t.
ShuffleAndDeadline ==
    /\ main_pc = "shuffle"
    /\ all_files' \in Shuffle(all_files)
    /\ stamps' = stamps \cup StampsAt("shuffle")
    /\ main_pc' = "start"
    /\ i' = 0
    /\ UNCHANGED <<queue_depth, buffer, pipe, expired, wpc, item,
                   count, result_queue, total, left, stops, reads, taken,
                   early>>
    /\ UNCHANGED <<watch, late, late_reads, published, paths_put, stops_put, sweep_vars>>

\* Lines 132-138: start queue_depth workers, then take start_t.
StartWorker ==
    /\ main_pc = "start"
    /\ IF i < queue_depth
       THEN /\ wpc' = [wpc EXCEPT ![i + 1] = "check"]
            /\ i' = i + 1
            /\ UNCHANGED <<main_pc, stamps>>
       ELSE /\ main_pc' = "put_paths"
            /\ i' = 0
            /\ stamps' = stamps \cup StampsAt("start")
            /\ UNCHANGED wpc
    /\ UNCHANGED <<all_files, queue_depth, buffer, pipe, expired,
                   item, count, result_queue, total, left, stops, reads,
                   taken, early>>
    /\ UNCHANGED <<watch, late, late_reads, published, paths_put, stops_put, sweep_vars>>

\* A queue that hands out the newest token first.
PutFront(q, tok) == <<tok>> \o q

\* Lines 140 and 142: path_queue.put(tok) appends tok to the queue's buffer.
Put(q, tok) == Append(q, tok)

\* Lines 139-140: put every path.
PutPath ==
    /\ main_pc = "put_paths"
    /\ IF i < Len(all_files)
       THEN /\ buffer' = Put(buffer, all_files[i + 1])
            /\ paths_put' = paths_put + 1
            /\ i' = i + 1
            /\ UNCHANGED main_pc
       ELSE /\ main_pc' = "put_stops"
            /\ i' = 0
            /\ UNCHANGED <<buffer, paths_put>>
    /\ UNCHANGED <<all_files, queue_depth, pipe, expired, wpc,
                   item, count, result_queue, total, left, stops, reads,
                   taken, early>>
    /\ UNCHANGED <<watch, late, late_reads, stamps, published, stops_put, sweep_vars>>

\* A producer that puts one stop sentinel too few.
StopCountShort(depth) == depth - 1

\* A producer that puts one stop sentinel too many.
StopCountExtra(depth) == depth + 1

\* Line 141: the number of stop sentinels put, range(queue_depth).
StopCount(depth) == depth

\* Lines 141-142: put the stop sentinels.
PutStop ==
    /\ main_pc = "put_stops"
    /\ IF i < StopCount(queue_depth)
       THEN /\ buffer' = Put(buffer, None)
            /\ stops_put' = stops_put + 1
            /\ i' = i + 1
            /\ UNCHANGED main_pc
       ELSE /\ main_pc' = "join_thread"
            /\ i' = 0
            /\ UNCHANGED <<buffer, stops_put>>
    /\ UNCHANGED <<all_files, queue_depth, pipe, expired, wpc,
                   item, count, result_queue, total, left, stops, reads,
                   taken, early>>
    /\ UNCHANGED <<watch, late, late_reads, stamps, published, paths_put, sweep_vars>>

\* Lines 143-144: close() and join_thread() return once the feeder thread has
\* written every buffered token to the pipe.
JoinThread ==
    /\ main_pc = "join_thread"
    /\ buffer = <<>>
    /\ main_pc' = "join"
    /\ i' = 0
    /\ UNCHANGED <<all_files, queue_depth, buffer, pipe, expired,
                   wpc, item, count, result_queue, total, left, stops, reads,
                   taken, early>>
    /\ UNCHANGED <<watch, late, late_reads, stamps, published, paths_put, stops_put, sweep_vars>>

\* A worker process has exited (by return or by an uncaught exception).
Exited(w) == wpc[w] \in {"done", "crashed"}

\* Line 147: w.join() returns once the process has exited.
Joinable(w) == Exited(w)

\* Lines 146-149: join the workers in the order started, then take used_t and
\* set completed_count to 0.
JoinWorker ==
    /\ main_pc = "join"
    /\ IF i < queue_depth
       THEN /\ Joinable(i + 1)
            /\ i' = i + 1
            /\ UNCHANGED <<main_pc, total, stamps>>
       ELSE /\ main_pc' = "collect"
            /\ i' = 0
            /\ total' = 0
            /\ stamps' = stamps \cup StampsAt("join")
    /\ UNCHANGED <<all_files, queue_depth, buffer, pipe, expired,
                   wpc, item, count, result_queue, taken, left, stops, reads,
                   early>>
    /\ UNCHANGED <<watch, late, late_reads, published, paths_put, stops_put, sweep_vars>>

\* A runner that assigns where line 151 adds.
AccumulateLast(sum, value) == value

\* Line 151: completed_count += result_queue.get().
Accumulate(sum, value) == sum + value

\* Lines 150-154: take queue_depth values from result_queue (get() blocks while
\* it is empty), then return.
Collect ==
    /\ main_pc = "collect"
    /\ IF i < queue_depth
       THEN /\ result_queue # <<>>
            /\ total' = Accumulate(total, Head(result_queue).n)
            /\ taken' = Append(taken, Head(result_queue).w)
            /\ result_queue' = Tail(result_queue)
            /\ i' = i + 1
            /\ UNCHANGED main_pc
       ELSE /\ main_pc' = "returned"
            /\ UNCHANGED <<i, total, taken, result_queue>>
    /\ UNCHANGED <<all_files, queue_depth, buffer, pipe, expired,
                   wpc, item, count, left, stops, reads, early>>
    /\ UNCHANGED <<watch, late, late_reads, stamps, published, paths_put, stops_put, sweep_vars>>

Main ==
    \/ DropCaches
    \/ ShuffleAndDeadline
    \/ StartWorker
    \/ PutPath
    \/ PutStop
    \/ JoinThread
    \/ JoinWorker
    \/ Collect

----------------------------------------------------------------------------
\* path_queue's feeder thread and the clock

\* The feeder thread writes the oldest buffered token to the pipe; the write
\* blocks while the pipe is full.
Feed ==
    /\ buffer # <<>>
    /\ Len(pipe) < PipeCap
    /\ pipe' = Append(pipe, Head(buffer))
    /\ buffer' = Tail(buffer)
    /\ UNCHANGED <<all_files, queue_depth, main_pc, i, expired,
                   wpc, item, count, result_queue, total, left, stops, reads,
                   taken, early>>
    /\ UNCHANGED <<watch, late, late_reads, stamps, published, paths_put, stops_put, sweep_vars>>

\* Paths dequeued so far.
Dequeued == SumTo(reads, MaxPaths)

\* Reads completed and counted so far.
Completed == SumTo(count, MaxDepth)

\* The clock passes end_t (set on line 129).
Expire ==
    /\ main_pc \notin {"drop", "shuffle", "raised"}
    /\ ~expired
    /\ expired' = TRUE
    /\ early' = (Completed < Len(all_files))
    /\ UNCHANGED <<all_files, queue_depth, main_pc, i, buffer,
                   pipe, wpc, item, count, result_queue, total, left, stops,
                   reads, taken>>
    /\ UNCHANGED <<watch, late, late_reads, stamps, published, paths_put, stops_put, sweep_vars>>

----------------------------------------------------------------------------
\* benchmark_worker()

\* A worker that never sees the deadline.
PastDeadlineNever == FALSE

\* A worker whose deadline comparison is reversed.
PastDeadlineReversed == ~expired

\* Line 108: t > exit_time.
PastDeadline == expired

\* Lines 107-109: read the clock and leave the loop when it is past exit_time.
Check(w) ==
    /\ wpc[w] = "check"
    /\ IF PastDeadline
       THEN /\ wpc' = [wpc EXCEPT ![w] = "publish"]
            /\ left' = [left EXCEPT ![w] = "deadline"]
       ELSE /\ wpc' = [wpc EXCEPT ![w] = "get"]
            /\ UNCHANGED left
    /\ UNCHANGED <<all_files, queue_depth, main_pc, i, buffer,
                   pipe, expired, item, count, result_queue, total, stops,
                   reads, taken, early>>
    /\ UNCHANGED <<watch, late, late_reads, stamps, published, paths_put, stops_put, sweep_vars>>

\* A get() that returns the oldest token without removing it.
RestPeek(q) == q

\* What get() leaves in the pipe: all but the token it returns.
Rest(q) == Tail(q)

\* Lines 110-112: path_queue.get() blocks while the pipe is empty and returns
\* its oldest token; a stop sentinel ends the loop.
Get(w) ==
    /\ wpc[w] = "get"
    /\ pipe # <<>>
    /\ pipe' = Rest(pipe)
    /\ late' = [late EXCEPT ![w] = IF watch /\ expired THEN @ + 1 ELSE @]
    /\ IF Head(pipe) = None
       THEN /\ wpc' = [wpc EXCEPT ![w] = "publish"]
            /\ left' = [left EXCEPT ![w] = "stop"]
            /\ stops' = [stops EXCEPT ![w] = @ + 1]
            /\ UNCHANGED <<item, reads>>
       ELSE /\ wpc' = [wpc EXCEPT ![w] = "read"]
            /\ item' = [item EXCEPT ![w] = Head(pipe)]
            /\ reads' = [reads EXCEPT ![Head(pipe)] = @ + 1]
            /\ UNCHANGED <<left, stops>>
    /\ UNCHANGED <<all_files, queue_depth, main_pc, i, buffer,
                   expired, count, result_queue, total, taken, early>>
    /\ UNCHANGED <<watch, late_reads, stamps, published, paths_put, stops_put, sweep_vars>>

\* A worker that does not count its read.
IncrementNone(c) == c

\* Line 115: completed_count += 1.
Increment(c) == c + 1

\* Lines 113-115: the file is opened and read, and the read is counted.
ReadOk(w) ==
    /\ wpc[w] = "read"
    /\ count' = [count EXCEPT ![w] = Increment(@)]
    /\ late_reads' = [late_reads EXCEPT ![w] =
                           IF watch /\ expired THEN @ + 1 ELSE @]
    /\ wpc' = [wpc EXCEPT ![w] = "check"]
    /\ item' = [item EXCEPT ![w] = None]
    /\ UNCHANGED <<all_files, queue_depth, main_pc, i, buffer,
                   pipe, expired, result_queue, total, left, stops,
                   reads, taken, early>>
    /\ UNCHANGED <<watch, late, stamps, published, paths_put, stops_put, sweep_vars>>

\* A worker that swallows the error and goes on with its loop.
AfterErrorSkip == "check"

\* Where a worker is after open() or read() raised: nothing in
\* benchmark_worker catches it, so the process ends without reaching line 118.
AfterError == "crashed"

\* Lines 113-114: open() or read() raises.
ReadFail(w) ==
    /\ wpc[w] = "read"
    /\ wpc' = [wpc EXCEPT ![w] = AfterError]
    /\ left' = [left EXCEPT ![w] = "error"]
    /\ UNCHANGED <<all_files, queue_depth, main_pc, i, buffer,
                   pipe, expired, item, count, result_queue, total, stops,
                   reads, taken, early>>
    /\ UNCHANGED <<watch, late, late_reads, stamps, published, paths_put, stops_put, sweep_vars>>

\* A worker that puts its count twice.
PublishedTwice(w) == <<[w |-> w, n |-> count[w]], [w |-> w, n |-> count[w]]>>

\* Line 118: what result_queue.put(completed_count) adds to result_queue.
Published(w) == <<[w |-> w, n |-> count[w]]>>

\* Lines 117-119: publish the count; the process then exits.
Publish(w) ==
    /\ wpc[w] = "publish"
    /\ result_queue' = result_queue \o Published(w)
    /\ published' = [published EXCEPT ![w] =
                         @ \o [k \in 1..Len(Published(w)) |-> Published(w)[k].n]]
    /\ wpc' = [wpc EXCEPT ![w] = "done"]
    /\ UNCHANGED <<all_files, queue_depth, main_pc, i, buffer,
                   pipe, expired, item, count, total, left, stops, reads,
                   taken, early>>
    /\ UNCHANGED <<watch, late, late_reads, stamps, paths_put, stops_put, sweep_vars>>

Worker(w) ==
    \/ Check(w)
    \/ Get(w)
    \/ ReadOk(w)
    \/ ReadFail(w)
    \/ Publish(w)

----------------------------------------------------------------------------

Next ==
    \/ Main
    \/ Feed
    \/ Expire
    \/ \E w \in WorkerIds : Worker(w)

Spec == Init /\ [][Next]_all_vars

\* The same runs, recording what each worker does past the deadline.
WatchSpec == Start(TRUE) /\ [][Next]_all_vars

\* Every process and thread that can take a step eventually takes one: the
\* producer, the feeder thread and each worker run in parallel, and a read
\* ends, by returning or by raising.  Nothing forces the deadline to pass.
FairSpec ==
    /\ Spec
    /\ WF_all_vars(Main)
    /\ WF_all_vars(Feed)
    /\ \A w \in WorkerIds : WF_all_vars(Worker(w))

----------------------------------------------------------------------------
\* main(): the sweep over all_fs, each filesystem inside TestFS.test()

\* The commands of setup() of all_fs[f], in order.
SetupCommands(f) ==
    CASE f = 1 -> <<"dd", "mkfs.ext4", "mkdir", "mount">>
      [] f = 2 -> <<"mksquashfs", "mkdir", "mount">>
      [] OTHER -> <<"mkfs.erofs", "mkdir", "mount">>

\* The commands of teardown(), the same in the three classes.
TeardownCommands(f) == <<"umount", "rmdir", "unlink">>

\* What a command that succeeds leaves behind.
ImageAfter(c) ==
    (image \/ c \in {"dd", "mkfs.ext4", "mksquashfs", "mkfs.erofs"})
        /\ c # "unlink"
TargetAfter(c) == (target \/ c = "mkdir") /\ c # "rmdir"
MountedAfter(c) == (mounted \/ c = "mount") /\ c # "umount"

\* How one benchmark() call can end for its caller: it returns, it raises
\* (the cache drop), or it never returns (a failed read, a full pipe).
BenchmarkOutcomes == {"return", "raise", "hang"}

\* args.path must not exist.
ParseArgs ==
    /\ sweep_pc = "args"
    /\ \E exists \in BOOLEAN :
           sweep_pc' = IF exists THEN "raised" ELSE "tmpfs"
    /\ UNCHANGED <<fs, step, call, pending, image, target, mounted, setups,
                   entered, body_end, teardowns>>
    /\ UNCHANGED vars

\* mkdir and mount of the tmpfs; either can raise.
MountTmpfs ==
    /\ sweep_pc = "tmpfs"
    /\ \E ok \in BOOLEAN :
           sweep_pc' = IF ok THEN "dataset" ELSE "raised"
    /\ UNCHANGED <<fs, step, call, pending, image, target, mounted, setups,
                   entered, body_end, teardowns>>
    /\ UNCHANGED vars

\* generate_fake_dataset(), then the first turn of the loop over all_fs.
MakeDataset ==
    /\ sweep_pc = "dataset"
    /\ \E ok \in BOOLEAN :
           sweep_pc' = IF ok THEN "setup" ELSE "raised"
    /\ UNCHANGED <<fs, step, call, pending, image, target, mounted, setups,
                   entered, body_end, teardowns>>
    /\ UNCHANGED vars

\* test() calls setup(): its next command runs.  A command that fails raises
\* out of setup() and out of test(), before the try statement.
SetupCommand ==
    /\ sweep_pc = "setup"
    /\ \E ok \in BOOLEAN :
           LET c == SetupCommands(fs)[step + 1]
               last == step + 1 = Len(SetupCommands(fs))
           IN  IF ok
               THEN /\ image' = ImageAfter(c)
                    /\ target' = TargetAfter(c)
                    /\ mounted' = MountedAfter(c)
                    /\ step' = IF last THEN 0 ELSE step + 1
                    /\ sweep_pc' = IF last THEN "body" ELSE "setup"
                    /\ setups' = IF last
                                 THEN [setups EXCEPT ![fs] = "ok"]
                                 ELSE setups
                    /\ entered' = IF last
                                  THEN [entered EXCEPT ![fs] = TRUE]
                                  ELSE entered
               ELSE /\ sweep_pc' = "raised"
                    /\ setups' = [setups EXCEPT ![fs] = "raised"]
                    /\ UNCHANGED <<image, target, mounted, step, entered>>
    /\ UNCHANGED <<fs, call, pending, body_end, teardowns>>
    /\ UNCHANGED vars

\* Where control goes when the body of the with block raises, without the
\* finally clause.
AfterBodyRaiseUnguarded == "raised"

\* Where control goes when the body of the with block raises: the finally
\* clause of test().
AfterBodyRaise == "finally"

\* The body of the with block: the next benchmark() call, or its end.
CallBenchmark ==
    /\ sweep_pc = "body"
    /\ \E outcome \in BenchmarkOutcomes :
           CASE outcome = "return" ->
                    /\ call' = call + 1
                    /\ sweep_pc' = IF call + 1 = NumCalls
                                   THEN "finally" ELSE "body"
                    /\ body_end' = IF call + 1 = NumCalls
                                   THEN [body_end EXCEPT ![fs] = "returned"]
                                   ELSE body_end
                    /\ UNCHANGED pending
             [] outcome = "raise" ->
                    /\ pending' = TRUE
                    /\ sweep_pc' = AfterBodyRaise
                    /\ body_end' = [body_end EXCEPT ![fs] = "raised"]
                    /\ UNCHANGED call
             [] OTHER ->
                    /\ sweep_pc' = "hung"
                    /\ UNCHANGED <<call, pending, body_end>>
    /\ UNCHANGED <<fs, step, image, target, mounted, setups, entered,
                   teardowns>>
    /\ UNCHANGED vars

\* The finally clause: the sleep, then the call of teardown().
EnterTeardown ==
    /\ sweep_pc = "finally"
    /\ teardowns' = [teardowns EXCEPT ![fs] = @ + 1]
    /\ sweep_pc' = "teardown"
    /\ step' = 0
    /\ UNCHANGED <<fs, call, pending, image, target, mounted, setups,
                   entered, body_end>>
    /\ UNCHANGED vars

\* The next command of teardown().  After the last one the exception of the
\* body, if any, goes on to main(); otherwise the loop takes the next class,
\* or ends.
TeardownCommand ==
    /\ sweep_pc = "teardown"
    /\ \E ok \in BOOLEAN :
           LET c == TeardownCommands(fs)[step + 1]
               last == step + 1 = Len(TeardownCommands(fs))
           IN  IF ok
               THEN /\ image' = ImageAfter(c)
                    /\ target' = TargetAfter(c)
                    /\ mounted' = MountedAfter(c)
                    /\ step' = IF last THEN 0 ELSE step + 1
                    /\ sweep_pc' = IF ~last THEN "teardown"
                                   ELSE IF pending THEN "raised"
                                   ELSE IF fs < NumFs THEN "setup"
                                   ELSE "cleanup"
                    /\ fs' = IF last /\ ~pending /\ fs < NumFs
                             THEN fs + 1 ELSE fs
                    /\ call' = IF last THEN 0 ELSE call
               ELSE /\ sweep_pc' = "raised"
                    /\ UNCHANGED <<image, target, mounted, step, fs, call>>
    /\ UNCHANGED <<pending, setups, entered, body_end, teardowns>>
    /\ UNCHANGED vars

\* umount and rmdir of the tmpfs; either can raise.
Cleanup ==
    /\ sweep_pc = "cleanup"
    /\ \E ok \in BOOLEAN :
           sweep_pc' = IF ok THEN "done" ELSE "raised"
    /\ UNCHANGED <<fs, step, call, pending, image, target, mounted, setups,
                   entered, body_end, teardowns>>
    /\ UNCHANGED vars

SweepNext ==
    \/ ParseArgs
    \/ MountTmpfs
    \/ MakeDataset
    \/ SetupCommand
    \/ CallBenchmark
    \/ EnterTeardown
    \/ TeardownCommand
    \/ Cleanup

\* main() alone: each benchmark() call is taken by its outcome, and the
\* variables of a call stay as they are before it.
SweepInit ==
    /\ Start(FALSE)
    /\ all_files = <<>>
    /\ queue_depth = 1

SweepSpec == SweepInit /\ [][SweepNext]_all_vars

----------------------------------------------------------------------------
\* Shorthands of the properties below

\* Some worker's read has failed.
AnyFailed == \E w \in WorkerIds : left[w] = "error"

\* len(all_files)
N == Len(all_files)

\* No token is left in path_queue.
QueueEmpty == buffer = <<>> /\ pipe = <<>>

\* The number of values benchmark() took that worker w had published.
TakenOf(w) == Cardinality({k \in 1..Len(taken) : taken[k] = w})

----------------------------------------------------------------------------
\* C1: in every reachable state of a run, whatever the interleaving of the
\* producer, the feeder and the workers, no path has been dequeued (and so
\* read) more than once across all workers.
C1_PathReadAtMostOnce == \A p \in Paths : reads[p] <= 1

\* A run that returned with every path of a full list read, and both of the
\* first two workers having read some of them.
C1_Witness ==
    /\ main_pc = "returned"
    /\ N = MaxPaths
    /\ \A p \in Paths : reads[p] = 1
    /\ count[1] > 0
    /\ queue_depth > 1 /\ count[queue_depth] > 0

\* C2: whenever benchmark() returns for a non-empty list, the returned total
\* is between 0 and len(all_files) and equals the number of paths the workers
\* dequeued.
C2_TotalIsDequeued ==
    (main_pc = "returned" /\ N >= 1) =>
        /\ 0 <= total
        /\ total <= N
        /\ total = Dequeued

\* A run that returned after the deadline cut it short: some paths were read
\* and counted, others never dequeued.
C2_Witness ==
    /\ main_pc = "returned"
    /\ 0 < total
    /\ total < N

\* C3: under fair scheduling every started worker eventually publishes its
\* count and exits, unless some read fails; the deadline need not pass.
C3_WorkersTerminate ==
    \A w \in WorkerIds : (wpc[w] # "idle") ~> (wpc[w] = "done" \/ AnyFailed)

\* Every worker of the largest pool has exited through a stop sentinel while
\* the deadline has not passed.
C3_Witness ==
    /\ ~expired
    /\ queue_depth = MaxDepth
    /\ \A w \in Workers : wpc[w] = "done" /\ left[w] = "stop"

\* C4: once the deadline has passed with paths not yet dequeued, benchmark()
\* eventually returns (unless a read fails).
C4_ReturnsAfterDeadline ==
    (expired /\ Dequeued < N) ~> (main_pc = "returned" \/ AnyFailed)

\* C5 as stated: when the deadline has not passed before every path of a
\* non-empty list was read, a run that returns has total = len(all_files),
\* every worker has dequeued exactly one stop sentinel and path_queue is
\* empty.
C5_ExhaustedAsStated ==
    (main_pc = "returned" /\ N >= 1 /\ ~early) =>
        /\ total = N
        /\ \A w \in Workers : stops[w] = 1
        /\ QueueEmpty

\* C5, amended: when no worker has left its loop on the deadline, a run that
\* returns has total = len(all_files), every worker has dequeued exactly one
\* stop sentinel and path_queue is empty.
C5_ExhaustedNoDeadlineExit ==
    (main_pc = "returned" /\ \A w \in Workers : left[w] # "deadline") =>
        /\ total = N
        /\ \A w \in Workers : stops[w] = 1
        /\ QueueEmpty

\* The largest pool returned from a full list and no worker met the deadline.
C5_Witness ==
    /\ main_pc = "returned"
    /\ N = MaxPaths
    /\ queue_depth = MaxDepth
    /\ \A w \in Workers : left[w] = "stop"

\* C6: a worker whose read failed takes no further step and its count stays
\* what it was before the failed read, and benchmark() never returns in a run
\* where a read failed.
C6_FailureStopsWorkerAndRun ==
    /\ [](AnyFailed => main_pc # "returned")
    /\ [][\A w \in WorkerIds :
            /\ left[w] = "error" =>
                   wpc'[w] = wpc[w] /\ count'[w] = count[w] /\ left'[w] = "error"
            /\ (left[w] # "error" /\ left'[w] = "error") =>
                   count'[w] = count[w]]_vars

\* A worker's read failed after it had counted a read, every other worker has
\* published, and benchmark() waits in result_queue.get() for a value that
\* never comes.
C6_Witness ==
    /\ \E w \in Workers : left[w] = "error" /\ count[w] > 0
    /\ main_pc = "collect"
    /\ i < queue_depth
    /\ result_queue = <<>>
    /\ \A w \in Workers : Exited(w)

\* C7: once a read has failed, benchmark() eventually ends by raising to its
\* caller.
C7_FailureSurfaces == AnyFailed ~> (main_pc = "raised")

\* C8 as stated: every worker that has exited has dequeued the stop sentinel
\* exactly once.
C8_StopExactlyOnce == \A w \in Workers : Exited(w) => stops[w] = 1

\* C8, amended: a worker never dequeues the stop sentinel more than once; one
\* that has exited while the deadline has not passed and without a failed
\* read has dequeued it exactly once; one that left on the deadline or on a
\* failed read has dequeued it zero times.
C8_StopAtMostOnce ==
    \A w \in WorkerIds :
        /\ stops[w] <= 1
        /\ (wpc[w] = "done" /\ ~expired) => stops[w] = 1
        /\ left[w] \in {"deadline", "error"} => stops[w] = 0

\* One worker has exited through its stop sentinel and another on the
\* deadline, with a stop sentinel left over.
C8_Witness ==
    /\ \E w \in Workers : wpc[w] = "done" /\ stops[w] = 1
    /\ \E w \in Workers : wpc[w] = "done" /\ left[w] = "deadline"
    /\ \E k \in 1..Len(pipe) : pipe[k] = None

\* C9: the deadline has never passed while a worker is blocked in
\* path_queue.get() on an empty queue.
C9_NeverBlockedPastDeadline ==
    ~(expired /\ QueueEmpty /\ \E w \in Workers : wpc[w] = "get")

\* C10: benchmark() takes values from result_queue only once every worker has
\* exited and been joined; when it returns it has taken queue_depth values,
\* one from each worker, and its total is the sum of the workers' counts.
C10_CountsTakenOnce ==
    /\ taken # <<>> =>
           /\ main_pc \in {"collect", "returned"}
           /\ \A w \in Workers : Exited(w)
    /\ \A w \in WorkerIds : TakenOf(w) <= 1
    /\ main_pc = "returned" =>
           /\ Len(taken) = queue_depth
           /\ \A w \in Workers : TakenOf(w) = 1
           /\ total = SumTo(count, queue_depth)

\* The largest pool returned, its first and last workers both having counted
\* reads.
C10_Witness ==
    /\ main_pc = "returned"
    /\ queue_depth = MaxDepth
    /\ count[1] > 0
    /\ count[MaxDepth] > 0
    /\ total = count[1] + count[MaxDepth]

\* C11: for an empty list, benchmark() once past the cache drop eventually
\* returns, and it returns total = 0 with every worker having published 0.
C11_EmptyListReturnsZero ==
    /\ []((N = 0 /\ main_pc = "returned") =>
             /\ total = 0
             /\ \A w \in Workers : wpc[w] = "done" /\ count[w] = 0)
    /\ (N = 0 /\ main_pc = "shuffle") ~> (main_pc = "returned")

\* The largest pool returned from an empty list, one worker having left on its
\* stop sentinel and another on the deadline.
C11_Witness ==
    /\ N = 0
    /\ main_pc = "returned"
    /\ queue_depth = MaxDepth
    /\ \E w \in Workers : left[w] = "stop"
    /\ \E w \in Workers : left[w] = "deadline"

\* C12: when the deadline has not passed before every path was read, a run
\* that returns has read every path once and returns total = len(all_files),
\* whatever order the shuffle produced and however the workers interleaved.
C12_TotalIgnoresOrder ==
    (main_pc = "returned" /\ ~early) =>
        /\ total = N
        /\ \A p \in 1..N : reads[p] = 1

\* A run over a full list that the shuffle reordered returned, the deadline
\* having passed only after the last read.
C12_Witness ==
    /\ main_pc = "returned"
    /\ N = MaxPaths
    /\ all_files[1] # 1
    /\ expired
    /\ ~early

\* C14: whenever some worker has dequeued a stop sentinel, every path of the
\* run has already been dequeued.
C14_StopsAfterPaths ==
    (\E w \in WorkerIds : stops[w] > 0) => Dequeued = N

\* A worker has left on its stop sentinel while another still reads the last
\* path of a full list.
C14_Witness ==
    /\ N = MaxPaths
    /\ \E w \in Workers : left[w] = "stop"
    /\ \E w \in Workers : wpc[w] = "read"

\* C18: benchmark() is never ended by its cache drop: whatever the cache drop
\* does, the run goes on.
C18_CacheDropNeverAborts == main_pc # "raised"

\* The number of tokens of q that are paths.
PathsIn(q) == Cardinality({k \in 1..Len(q) : q[k] # None})

\* The number of tokens of q that are stop sentinels.
StopsIn(q) == Cardinality({k \in 1..Len(q) : q[k] = None})

\* The number of started workers.
Started == Cardinality({w \in WorkerIds : wpc[w] # "idle"})

\* C13: past the deadline every worker dequeues at most one more token and
\* completes at most one more read, so at most queue_depth reads that began
\* past the deadline are counted; a run with one worker in which no read
\* completed before the deadline returns a total of 0 or 1.
C13_AtMostOneMorePerWorker ==
    /\ \A w \in WorkerIds : late[w] <= 1 /\ late_reads[w] <= 1
    /\ SumTo(late, MaxDepth) <= queue_depth
    /\ (queue_depth = 1 /\ main_pc = "returned" /\ expired
            /\ count[1] = late_reads[1]) => total \in {0, 1}

\* Past the deadline one worker has dequeued and read one more path and has
\* then left on the deadline, with a path still in the queue.
C13_Witness ==
    /\ \E w \in Workers :
           /\ late[w] = 1
           /\ late_reads[w] = 1
           /\ left[w] = "deadline"
    /\ PathsIn(buffer) + PathsIn(pipe) > 0

\* C15: end_t is fixed before any worker is started; start_t is taken after
\* all queue_depth workers were started and before anything is put on
\* path_queue; the end of the elapsed time is taken after every worker was
\* joined and before any value is taken from result_queue.
C15_ElapsedWindow ==
    /\ "end_t" \notin stamps => \A w \in WorkerIds : wpc[w] = "idle"
    /\ "start_t" \in stamps => Started = queue_depth
    /\ "start_t" \notin stamps => paths_put = 0 /\ stops_put = 0
    /\ "used_t" \in stamps =>
           /\ main_pc \in {"collect", "returned"}
           /\ \A w \in Workers : Exited(w)
    /\ "used_t" \notin stamps => taken = <<>>
    /\ main_pc = "returned" => stamps = {"end_t", "start_t", "used_t"}

\* benchmark() returned from the largest pool and a full list with its three
\* clock readings taken.
C15_Witness ==
    /\ main_pc = "returned"
    /\ queue_depth = MaxDepth
    /\ N = MaxPaths
    /\ total = N
    /\ stamps = {"end_t", "start_t", "used_t"}

\* C16: a worker's count is a natural number that a step either keeps or
\* raises by 1, and raises exactly when the worker completes a read; a worker
\* that is done stays done with its count unchanged, and it has put exactly
\* one value on result_queue, its final count; no other worker has put any.
C16_CountMonotoneAndFrozen ==
    /\ [](\A w \in WorkerIds :
             /\ count[w] \in Nat
             /\ wpc[w] = "done" => published[w] = <<count[w]>>
             /\ wpc[w] # "done" => published[w] = <<>>)
    /\ [][\A w \in WorkerIds :
             /\ count'[w] = count[w] \/ count'[w] = count[w] + 1
             /\ count'[w] = count[w] + 1 <=>
                    (wpc[w] = "read" /\ wpc'[w] = "check")
             /\ wpc[w] = "done" =>
                    /\ wpc'[w] = "done"
                    /\ count'[w] = count[w]
                    /\ published'[w] = published[w]]_vars

\* A worker is done having counted a read, its count published, while another
\* still reads.
C16_Witness ==
    /\ \E w \in Workers : wpc[w] = "done" /\ count[w] >= 1
    /\ \E w \in Workers : wpc[w] = "read"

\* C17: never more stop sentinels are put than workers were started, none is
\* put before all queue_depth workers were started, and once the producer is
\* past its put loops both numbers equal queue_depth.
C17_StopsEqualWorkers ==
    /\ stops_put <= Started
    /\ stops_put > 0 => Started = queue_depth
    /\ main_pc \in {"join_thread", "join", "collect", "returned"} =>
           /\ stops_put = queue_depth
           /\ Started = queue_depth

\* The producer of the largest pool waits in join_thread() with all its stop
\* sentinels put and one of them not yet written to the pipe.
C17_Witness ==
    /\ main_pc = "join_thread"
    /\ queue_depth = MaxDepth
    /\ stops_put = MaxDepth
    /\ StopsIn(buffer) > 0

\* C19: the paths put so far are those still in the queue, those being read,
\* those read and counted and those whose read failed; the stop sentinels put
\* so far are those still in the queue and those a worker left on.  (A worker
\* leaving on the deadline takes no token with it.)
C19_TokensConserved ==
    /\ paths_put = PathsIn(buffer) + PathsIn(pipe)
                     + Cardinality({w \in WorkerIds : wpc[w] = "read"})
                     + Completed
                     + Cardinality({w \in WorkerIds : left[w] = "error"})
    /\ stops_put = StopsIn(buffer) + StopsIn(pipe)
                     + Cardinality({w \in WorkerIds : left[w] = "stop"})

\* One worker has left on the deadline, another worker's read has failed, and
\* a path and a stop sentinel are still in the queue.
C19_Witness ==
    /\ \E w \in Workers : left[w] = "deadline" /\ wpc[w] = "done"
    /\ \E w \in Workers : left[w] = "error"
    /\ PathsIn(buffer) + PathsIn(pipe) > 0
    /\ StopsIn(buffer) + StopsIn(pipe) > 0

----------------------------------------------------------------------------
\* The with statement of filesystem f is over: main() has gone on to a later
\* class or to the cleanup, or has ended, and is not stuck in a body.
UseOver(f) ==
    \/ fs > f
    \/ sweep_pc \in {"cleanup", "done"}
    \/ sweep_pc = "raised" /\ setups[f] # "no"

\* C20: for every use of TestFS.test() in main(), in every reachable state:
\* teardown() has been called at most once, and only after setup() completed
\* and the body finished (by returning or by raising); once the body has
\* finished, teardown() is called as soon as the sleep of the finally clause
\* is over; when the use is over, teardown() has been called exactly once if
\* and only if setup() completed without error; if setup() raised, teardown()
\* has not been called and the body was not entered; and setup() of a
\* filesystem starts only after teardown() of the one before it was called
\* and has removed its mount, its mount point and its image.
C20_TestLifecycle ==
    \A f \in FsIds :
        /\ teardowns[f] <= 1
        /\ teardowns[f] = 1 => setups[f] = "ok" /\ body_end[f] # "no"
        /\ body_end[f] # "no" /\ ~(fs = f /\ sweep_pc = "finally")
               => teardowns[f] = 1
        /\ UseOver(f) => (teardowns[f] = 1 <=> setups[f] = "ok")
        /\ setups[f] = "raised" => teardowns[f] = 0 /\ ~entered[f]
        /\ entered[f] => setups[f] = "ok"
        /\ body_end[f] # "no" => entered[f]
        /\ f > 1 /\ fs >= f
               => /\ teardowns[f - 1] = 1
                  /\ body_end[f - 1] = "returned"
        /\ fs = f /\ sweep_pc = "setup" /\ step = 0
               => ~image /\ ~target /\ ~mounted

\* The body of the second filesystem raised after the first was torn down,
\* its teardown() was called once and ran to its end, and the exception
\* has ended main().
C20_Witness ==
    /\ sweep_pc = "raised"
    /\ fs = 2
    /\ body_end[1] = "returned"
    /\ teardowns[1] = 1
    /\ body_end[2] = "raised"
    /\ teardowns[2] = 1
    /\ ~mounted /\ ~target /\ ~image
    /\ setups[3] = "no"

====
